---- MODULE Spec2Model ----
(***************************************************************************)
(* A model of the agent runtime of agent_system: the bounded conversation  *)
(* Memory (memory.py), the extraction of a tool call from model text and   *)
(* the providers' get_response with the Anthropic message conversion       *)
(* (llm_provider.py), and the two-call negotiation of Agent.process_query  *)
(* with its tool dispatch (agent.py).                                      *)
(*                                                                         *)
(* Python strings are sequences of tokens (each token stands for a run of  *)
(* characters); a Turn is a record [role, content].                        *)
(***************************************************************************)
EXTENDS Integers, Sequences, FiniteSets, TLC

VARIABLES
    messages,     \* Memory.messages: the stored turns, oldest first
    max_items,    \* Memory.max_items: the capacity
    enabled,      \* Memory.enabled
    lastOp,       \* the Memory method that returned last ("init" after construction)
    returned,     \* the value the last get_messages() call returned
    nadds,        \* history: number of add calls made so far
    accepted,     \* history: turns passed to add while enabled, since the last clear
    rejected,     \* history: contents passed to add while disabled
    onlyAdds,     \* history: constructed enabled and only add/get_messages called so far
    snapshot,     \* history: the stored turns when memory was last disabled
    touched,      \* history: clear was called since memory was last disabled
    prevEnabled,  \* history: the enabled flag before the last call
    config,       \* Agent.config: [memory, prompt_template]
    pc,           \* where process_query stands: idle, first_call, dispatch, second_call, done
    query,        \* process_query's argument
    outgoing,     \* process_query's local list messages, sent to the backend
    tool_response,\* the first reply
    tool_call,    \* what extract_tool_call returned (NoAction for None)
    tool_result,  \* what _execute_tool returned
    result,       \* what process_query returned
    ending,       \* which way process_query ended: plain, tool, error ("none" while running)
    propagated,   \* an exception left process_query
    calls,        \* history: the get_response calls of this query, [messages, tools, reply]
    ndispatch,    \* history: _execute_tool calls of this query
    nextract,     \* history: extract_tool_call calls of this query
    memBefore,    \* history: Memory.messages when this query started
    nqueries,     \* history: process_query calls that returned
    llm,          \* Agent.llm: the provider, [provider, api_key]
    called,       \* history: what the tool's callable did in this query's dispatch
    fnArg,        \* the argument of the function under study (pure-function specifications)
    fnResult,     \* what the function under study returned or raised
    fnDone,       \* the function under study has been applied
    adders        \* the add calls in progress at once (SpecInterleave): [initial, pc, tmp]

memVars == <<messages, max_items, enabled, lastOp, returned, nadds, accepted,
             rejected, onlyAdds, snapshot, touched, prevEnabled>>

agentVars == <<config, pc, query, outgoing, tool_response, tool_call, tool_result,
               result, ending, propagated, calls, ndispatch, nextract, memBefore,
               nqueries, llm, called>>

fnVars == <<fnArg, fnResult, fnDone, adders>>

memHistory == <<lastOp, returned, nadds, accepted, rejected, onlyAdds, snapshot,
                touched, prevEnabled>>

vars == <<memVars, agentVars, fnVars>>

-----------------------------------------------------------------------------
(* Bounds of the model *)

MaxCap == 3      \* capacities 0..MaxCap are constructed in SpecMemory
MaxAdds == 5     \* add calls per behaviour of SpecMemory
MaxQueries == 2  \* process_query calls per behaviour of Spec
MaxTextLen == 3  \* SpecExtract tries every text of up to MaxTextLen tokens of TextAlphabet
MaxMsgs == 3     \* SpecConvert tries every message list of up to MaxMsgs messages
MaxShared == 3   \* capacities 2..MaxShared are constructed in SpecInterleave

-----------------------------------------------------------------------------
(* Python list helpers *)

Min(a, b) == IF a < b THEN a ELSE b
Max(a, b) == IF a > b THEN a ELSE b

\* s[start:] for a Python list s and a (possibly negative) integer start.
\* Python evaluates -0 to 0, so s[-0:] is the whole list.
PySliceFrom(s, start) ==
    LET n == Len(s)
        lo == IF start < 0 THEN Max(n + start, 0) ELSE Min(start, n)
    IN  SubSeq(s, lo + 1, n)

Turn(role, content) == [role |-> role, content |-> content]

Roles == {"user", "assistant", "system"}

\* the roles SpecMemory passes to add
AddRoles == {"user", "assistant"}

\* The content of the k-th add call of SpecMemory: A, B, C, ...
Letters == <<"A", "B", "C", "D", "E", "F", "G", "H">>
Content(k) == <<Letters[k]>>

-----------------------------------------------------------------------------
(* memory.py: class Memory *)

MemoryAddDropNewest(msgs, cap, en, role, content) ==
    IF ~en THEN msgs
    ELSE IF Len(msgs) >= cap THEN msgs
         ELSE Append(msgs, Turn(role, content))

MemoryAddIgnoreEnabled(msgs, cap, en, role, content) ==
    LET appended == Append(msgs, Turn(role, content))
    IN  IF Len(appended) > cap THEN PySliceFrom(appended, 0 - cap) ELSE appended

\* Memory.add: the value of self.messages after add(role, content)
MemoryAdd(msgs, cap, en, role, content) ==
    IF ~en THEN msgs
    ELSE LET appended == Append(msgs, Turn(role, content))
         IN  IF Len(appended) > cap
             THEN PySliceFrom(appended, 0 - cap)
             ELSE appended

MemoryGetMessagesGated(msgs, en) == IF en THEN msgs ELSE <<>>

\* Memory.get_messages: returns self.messages
MemoryGetMessages(msgs, en) == msgs

\* Memory.add(role, content)
add(role, content) ==
    /\ nadds < MaxAdds
    /\ messages' = MemoryAdd(messages, max_items, enabled, role, content)
    /\ nadds' = nadds + 1
    /\ accepted' = IF enabled THEN Append(accepted, Turn(role, content)) ELSE accepted
    /\ rejected' = IF enabled THEN rejected ELSE rejected \cup {content}
    /\ lastOp' = "add"
    /\ prevEnabled' = enabled
    /\ UNCHANGED <<max_items, enabled, returned, onlyAdds, snapshot, touched>>
    /\ UNCHANGED <<agentVars, fnVars>>

\* Memory.get_messages()
get_messages ==
    /\ returned' = MemoryGetMessages(messages, enabled)
    /\ lastOp' = "get_messages"
    /\ prevEnabled' = enabled
    /\ UNCHANGED <<messages, max_items, enabled, nadds, accepted, rejected,
                   onlyAdds, snapshot, touched>>
    /\ UNCHANGED <<agentVars, fnVars>>

clearWhenEnabled ==
    /\ messages' = IF enabled THEN <<>> ELSE messages
    /\ accepted' = <<>>
    /\ onlyAdds' = FALSE
    /\ touched' = TRUE
    /\ lastOp' = "clear"
    /\ prevEnabled' = enabled
    /\ UNCHANGED <<max_items, enabled, returned, nadds, rejected, snapshot>>
    /\ UNCHANGED <<agentVars, fnVars>>

\* Memory.clear()
clear ==
    /\ messages' = <<>>
    /\ accepted' = <<>>
    /\ onlyAdds' = FALSE
    /\ touched' = TRUE
    /\ lastOp' = "clear"
    /\ prevEnabled' = enabled
    /\ UNCHANGED <<max_items, enabled, returned, nadds, rejected, snapshot>>
    /\ UNCHANGED <<agentVars, fnVars>>

set_enabledClearsOnDisable(b) ==
    /\ enabled' = b
    /\ messages' = IF b THEN messages ELSE <<>>
    /\ onlyAdds' = FALSE
    /\ snapshot' = IF enabled /\ ~b THEN messages ELSE snapshot
    /\ touched' = IF enabled /\ ~b THEN FALSE ELSE touched
    /\ lastOp' = "set_enabled"
    /\ prevEnabled' = enabled
    /\ UNCHANGED <<max_items, returned, nadds, accepted, rejected>>
    /\ UNCHANGED <<agentVars, fnVars>>

\* Memory.set_enabled(b)
set_enabled(b) ==
    /\ enabled' = b
    /\ onlyAdds' = FALSE
    /\ snapshot' = IF enabled /\ ~b THEN messages ELSE snapshot
    /\ touched' = IF enabled /\ ~b THEN FALSE ELSE touched
    /\ lastOp' = "set_enabled"
    /\ prevEnabled' = enabled
    /\ UNCHANGED <<messages, max_items, returned, nadds, accepted, rejected>>
    /\ UNCHANGED <<agentVars, fnVars>>

MemNext ==
    \/ \E role \in AddRoles : add(role, Content(nadds + 1))
    \/ get_messages
    \/ clear
    \/ \E b \in BOOLEAN : set_enabled(b)

-----------------------------------------------------------------------------
(* Text: a Python str is a sequence of tokens.  The tokens with a meaning to *)
(* the regular expressions and to the JSON grammar are the backtick, the     *)
(* blank, the word json, the quote, the digits and the JSON punctuation;     *)
(* every other token is a run of ordinary characters.                        *)

BT == "BACKTICK"    \* one backtick character
WS == " "
Q  == "\""
Digits == {"1", "2", "4"}

IsWS(t) == t = WS

\* the first position >= i of s that holds no whitespace (Len(s)+1 if none): \s*
SkipWS(s, i) ==
    CHOOSE j \in i..(Len(s) + 1) :
        /\ \A k \in i..(j - 1) : IsWS(s[k])
        /\ (j = Len(s) + 1 \/ ~IsWS(s[j]))

\* str.strip()
Strip(s) ==
    IF \A k \in DOMAIN s : IsWS(s[k]) THEN <<>>
    ELSE LET lo == SkipWS(s, 1)
             hi == CHOOSE j \in 1..Len(s) :
                       ~IsWS(s[j]) /\ \A k \in (j + 1)..Len(s) : IsWS(s[k])
         IN  SubSeq(s, lo, hi)

\* three backticks at position i
IsFenceAt(s, i) ==
    /\ i >= 1 /\ i + 2 <= Len(s)
    /\ s[i] = BT /\ s[i + 1] = BT /\ s[i + 2] = BT

-----------------------------------------------------------------------------
(* JSON values as Python holds them after json.loads, as tagged tuples:      *)
(*   <<"str", tokens>>   <<"num", digits>>   <<"arr", elements>>             *)
(*   <<"obj", pairs>>  with pairs a sequence of <<key tokens, value>>, keys  *)
(*   unique, in insertion order (a Python dict).                             *)

JStr(tokens) == <<"str", tokens>>
JNum(digits) == <<"num", digits>>
JArr(elems)  == <<"arr", elems>>
JObj(pairs)  == <<"obj", pairs>>

HasKey(pairs, k) == \E i \in DOMAIN pairs : pairs[i][1] = k

\* d[k] = v on a dict: an existing key keeps its place and takes the new value
DictPut(pairs, k, v) ==
    IF HasKey(pairs, k)
    THEN [i \in DOMAIN pairs |-> IF pairs[i][1] = k THEN <<k, v>> ELSE pairs[i]]
    ELSE Append(pairs, <<k, v>>)

\* d.get(k, default)
DictGet(pairs, k, default) ==
    IF HasKey(pairs, k)
    THEN pairs[CHOOSE i \in DOMAIN pairs : pairs[i][1] = k][2]
    ELSE default

Fail == [ok |-> FALSE, v |-> <<>>, n |-> 0]
Parsed(v, n) == [ok |-> TRUE, v |-> v, n |-> n]

RECURSIVE ParseValue(_, _)
RECURSIVE ParseMembers(_, _, _)
RECURSIVE ParseElems(_, _, _)

\* the end of the run of digits that starts at i
DigitsEnd(s, i) ==
    CHOOSE j \in i..Len(s) :
        /\ \A k \in i..j : s[k] \in Digits
        /\ (j = Len(s) \/ s[j + 1] \notin Digits)

\* json's scanner at position i of s: the value that starts there and the
\* position after it
ParseValue(s, i) ==
    IF i > Len(s) THEN Fail
    ELSE IF s[i] = Q
    THEN IF \E j \in (i + 1)..Len(s) : s[j] = Q
         THEN LET j == CHOOSE j \in (i + 1)..Len(s) :
                           s[j] = Q /\ \A k \in (i + 1)..(j - 1) : s[k] # Q
              IN  Parsed(JStr(SubSeq(s, i + 1, j - 1)), j + 1)
         ELSE Fail
    ELSE IF s[i] \in Digits
    THEN LET j == DigitsEnd(s, i) IN Parsed(JNum(SubSeq(s, i, j)), j + 1)
    ELSE IF s[i] = "{"
    THEN LET j == SkipWS(s, i + 1)
         IN  IF j <= Len(s) /\ s[j] = "}" THEN Parsed(JObj(<<>>), j + 1)
             ELSE ParseMembers(s, j, <<>>)
    ELSE IF s[i] = "["
    THEN LET j == SkipWS(s, i + 1)
         IN  IF j <= Len(s) /\ s[j] = "]" THEN Parsed(JArr(<<>>), j + 1)
             ELSE ParseElems(s, j, <<>>)
    ELSE Fail

\* the members of an object from position i (a key is expected there)
ParseMembers(s, i, acc) ==
    IF i > Len(s) \/ s[i] # Q THEN Fail
    ELSE LET key == ParseValue(s, i)
         IN  IF ~key.ok THEN Fail
             ELSE LET c == SkipWS(s, key.n)
                  IN  IF c > Len(s) \/ s[c] # ":" THEN Fail
                      ELSE LET val == ParseValue(s, SkipWS(s, c + 1))
                           IN  IF ~val.ok THEN Fail
                               ELSE LET e == SkipWS(s, val.n)
                                        acc2 == DictPut(acc, key.v[2], val.v)
                                    IN  IF e > Len(s) THEN Fail
                                        ELSE IF s[e] = "}" THEN Parsed(JObj(acc2), e + 1)
                                        ELSE IF s[e] = ","
                                             THEN ParseMembers(s, SkipWS(s, e + 1), acc2)
                                        ELSE Fail

\* the elements of an array from position i (a value is expected there)
ParseElems(s, i, acc) ==
    LET val == ParseValue(s, i)
    IN  IF ~val.ok THEN Fail
        ELSE LET e == SkipWS(s, val.n)
                 acc2 == Append(acc, val.v)
             IN  IF e > Len(s) THEN Fail
                 ELSE IF s[e] = "]" THEN Parsed(JArr(acc2), e + 1)
                 ELSE IF s[e] = "," THEN ParseElems(s, SkipWS(s, e + 1), acc2)
                 ELSE Fail

\* json.loads(s): the value, or a failure (JSONDecodeError) when s is not
\* exactly one JSON value between optional whitespace
JsonLoads(s) ==
    LET r == ParseValue(s, SkipWS(s, 1))
    IN  IF r.ok /\ SkipWS(s, r.n) = Len(s) + 1 THEN r ELSE Fail

RECURSIVE JsonDumps(_)
RECURSIVE DumpPairs(_, _)
RECURSIVE DumpElems(_, _)

\* json.dumps(v) with the default separators ", " and ": "
JsonDumps(v) ==
    IF v[1] = "str" THEN <<Q>> \o v[2] \o <<Q>>
    ELSE IF v[1] = "num" THEN v[2]
    ELSE IF v[1] = "obj" THEN <<"{">> \o DumpPairs(v[2], 1) \o <<"}">>
    ELSE <<"[">> \o DumpElems(v[2], 1) \o <<"]">>

DumpPairs(pairs, i) ==
    IF i > Len(pairs) THEN <<>>
    ELSE (IF i > 1 THEN <<",", WS>> ELSE <<>>)
         \o <<Q>> \o pairs[i][1] \o <<Q, ":", WS>> \o JsonDumps(pairs[i][2])
         \o DumpPairs(pairs, i + 1)

DumpElems(elems, i) ==
    IF i > Len(elems) THEN <<>>
    ELSE (IF i > 1 THEN <<",", WS>> ELSE <<>>)
         \o JsonDumps(elems[i]) \o DumpElems(elems, i + 1)

-----------------------------------------------------------------------------
(* Python calls and exceptions *)

\* the result of a call: a returned value or a raised exception
Ret(v) == <<"return", v>>
Raise(type, msg) == <<"raise", type, msg>>
Raised(r) == r[1] = "raise"

\* no call was made
NotCalled == <<"notcalled">>

\* no add call is in progress
NoAdders == <<>>

\* the outcome standing for "the callable was entered"
CallReached == <<"reached">>

\* the classes that derive from Exception among those the model raises
ExceptionClasses ==
    {"KeyError", "TypeError", "ValueError", "ImportError", "AttributeError",
     "JSONDecodeError", "APIConnectionError"}

-----------------------------------------------------------------------------
(* llm_provider.py: LLMProvider.extract_tool_call *)

NoMatch == <<0, 0>>

\* with a fence at i: the position of the { that (?:json)?\s*{ reaches, or 0
BraceAfterFence(s, i) ==
    LET a == IF i + 3 <= Len(s) /\ s[i + 3] = "json" THEN i + 4 ELSE i + 3
        b == SkipWS(s, a)
    IN  IF b <= Len(s) /\ s[b] = "{" THEN b ELSE 0

\* a } at e that \s*``` follows
ClosesAt(s, e) == s[e] = "}" /\ IsFenceAt(s, SkipWS(s, e + 1))

\* a match of ```(?:json)?\s*({[\s\S]*?})\s*``` starts at i
FenceMatchesAt(s, i) ==
    /\ IsFenceAt(s, i)
    /\ BraceAfterFence(s, i) # 0
    /\ \E e \in (BraceAfterFence(s, i) + 1)..Len(s) : ClosesAt(s, e)

\* re.search of the fenced pattern: the span <<b, e>> of group 1 in the
\* leftmost match, the lazy [\s\S]*? ending at the first } that closes
FencedSearch(s) ==
    IF \E i \in DOMAIN s : FenceMatchesAt(s, i)
    THEN LET i == CHOOSE i \in DOMAIN s :
                      FenceMatchesAt(s, i) /\ \A k \in 1..(i - 1) : ~FenceMatchesAt(s, k)
             b == BraceAfterFence(s, i)
             e == CHOOSE e \in (b + 1)..Len(s) :
                      ClosesAt(s, e) /\ \A k \in (b + 1)..(e - 1) : ~ClosesAt(s, k)
         IN  <<b, e>>
    ELSE NoMatch

\* re.search of ^({[\s\S]*})$ in the stripped text: group 1 is all of it
BareSearch(t) ==
    IF Len(t) >= 2 /\ t[1] = "{" /\ t[Len(t)] = "}" THEN <<1, Len(t)>> ELSE NoMatch

NoAction == <<"none">>

IsAction(tc) == tc # NoAction

\* the two re.search calls of extract_tool_call: the fenced pattern on the
\* text first, the bare pattern on the stripped text otherwise; group(1) of
\* the match that was found
JsonMatch(response_text) ==
    LET fenced == FencedSearch(response_text)
        stripped == Strip(response_text)
        bare == BareSearch(stripped)
    IN  IF fenced # NoMatch
        THEN [found |-> TRUE, json_str |-> SubSeq(response_text, fenced[1], fenced[2])]
        ELSE IF bare # NoMatch
        THEN [found |-> TRUE, json_str |-> SubSeq(stripped, bare[1], bare[2])]
        ELSE [found |-> FALSE, json_str |-> <<>>]

ExtractTryToolKeyOnly(response_text) ==
    LET json_match == JsonMatch(response_text)
        loaded == JsonLoads(json_match.json_str)
    IN  IF ~json_match.found THEN Ret(NoAction)
        ELSE IF ~loaded.ok THEN Raise("JSONDecodeError", <<"Expecting value">>)
        ELSE IF HasKey(loaded.v[2], <<"tool">>)
        THEN Ret(loaded.v)
        ELSE Ret(NoAction)

\* the body of the try block of extract_tool_call: json.loads of the matched
\* candidate (raising JSONDecodeError when it is not JSON); the parsed object
\* is returned when it holds the keys tool and parameters; falling out of
\* the block reaches the final return None
ExtractTry(response_text) ==
    LET json_match == JsonMatch(response_text)
        loaded == JsonLoads(json_match.json_str)
    IN  IF ~json_match.found THEN Ret(NoAction)
        ELSE IF ~loaded.ok THEN Raise("JSONDecodeError", <<"Expecting value">>)
        ELSE IF HasKey(loaded.v[2], <<"tool">>) /\ HasKey(loaded.v[2], <<"parameters">>)
        THEN Ret(loaded.v)
        ELSE Ret(NoAction)

\* extract_tool_call(response_text) as a call: its except Exception clause
\* prints the error and the method returns None
ExtractOutcome(response_text) ==
    LET r == ExtractTry(response_text)
    IN  IF Raised(r) /\ r[2] \in ExceptionClasses THEN Ret(NoAction) ELSE r

\* the value extract_tool_call(response_text) returns: the Action or None
ExtractToolCall(response_text) == ExtractOutcome(response_text)[2]

-----------------------------------------------------------------------------
(* Python values: hashing, type names, str() *)
\* hash(v) succeeds: a str or an int, not a dict or a list
Hashable(v) == v[1] \in {"str", "num"}

\* the Python type name of a JSON value
TypeName(v) ==
    IF v[1] = "str" THEN "str" ELSE IF v[1] = "num" THEN "int"
    ELSE IF v[1] = "obj" THEN "dict" ELSE "list"

\* str(v), as an f-string formats it, for a str or an int
PyStr(v) == v[2]

-----------------------------------------------------------------------------
(* The agent's configuration and environment *)

agent_name == <<"MathAssistant">>
backstory == <<"I am a helpful assistant with math skills.">>
task == <<"help users solve mathematical problems">>

\* prompt templates a configuration may hold: none, one that uses the three
\* fields, one that names a field format() is not given
NoTemplate == <<>>
GoodTemplate == <<"I am ", "{agent_name}", ": ", "{backstory}", " / ", "{task}">>
BadTemplate == <<"Hello ", "{user}", ", I am ", "{agent_name}">>
Templates == {NoTemplate, GoodTemplate, BadTemplate}

Placeholders == {"{agent_name}", "{backstory}", "{task}", "{user}"}

\* Agent.tools: name -> tool_config, a dict in the order of the configuration.
\* function is the tool_config's "function" ("" when the key is absent).
tools == <<
    <<<<"calculator">>, [description |-> <<"Evaluate a mathematical expression">>,
                         function |-> <<"tools", ".", "calculator", ".", "evaluate">>]>>,
    <<<<"nofunc">>,     [description |-> <<"no function path">>,
                         function |-> <<>>]>>,
    <<<<"ghost">>,      [description |-> <<"module that is not installed">>,
                         function |-> <<"nomodule", ".", "run">>]>>,
    <<<<"noattr">>,     [description |-> <<"function the module lacks">>,
                         function |-> <<"tools", ".", "calculator", ".", "missing">>]>>,
    <<<<"nodot">>,      [description |-> <<"function path without a module">>,
                         function |-> <<"evaluate">>]>> >>

\* what importlib.import_module and getattr find: module -> its attributes
\* (an installation whose package tools.calculator exports evaluate)
ImportableModules == {<<"tools", ".", "calculator">>}
ModuleAttrs(m) == IF m = <<"tools", ".", "calculator">> THEN {<<"evaluate">>} ELSE {}

\* what a resolved callable may do when called: return a value or raise
CallOutcomes ==
    {Ret(JNum(<<"4">>)),
     Raise("ValueError", <<"bad expression">>),
     Raise("AttributeError", <<"'NoneType' object has no attribute 'x'">>)}

-----------------------------------------------------------------------------
(* agent.py: class Agent *)

\* function_path.rsplit('.', 1)
RSplitDot(path) ==
    IF \E k \in DOMAIN path : path[k] = "."
    THEN LET k == CHOOSE k \in DOMAIN path :
                      path[k] = "." /\ \A j \in (k + 1)..Len(path) : path[j] # "."
         IN  <<SubSeq(path, 1, k - 1), SubSeq(path, k + 1, Len(path))>>
    ELSE <<path>>

\* the try block of _execute_tool: resolve the callable and call it
ResolveAndCall(function_path, parameters, outcome) ==
    LET parts == RSplitDot(function_path)
    IN  IF Len(parts) # 2
        THEN Raise("ValueError", <<"not enough values to unpack (expected 2, got 1)">>)
        ELSE IF parts[1] \notin ImportableModules
        THEN Raise("ImportError", <<"No module named '">> \o parts[1] \o <<"'">>)
        ELSE IF parts[2] \notin ModuleAttrs(parts[1])
        THEN Raise("AttributeError",
                   <<"module '">> \o parts[1] \o <<"' has no attribute '">>
                       \o parts[2] \o <<"'">>)
        ELSE IF parameters[1] # "obj"
        THEN Raise("TypeError", <<"argument after ** must be a mapping, not ",
                                  TypeName(parameters)>>)
        ELSE outcome

\* Agent._execute_tool(tool_name, parameters), the resolved callable doing outcome
ExecuteTool(tool_name, parameters, outcome) ==
    IF ~Hashable(tool_name)
    THEN Raise("TypeError", <<"unhashable type: '", TypeName(tool_name), "'">>)
    ELSE IF ~(tool_name[1] = "str" /\ HasKey(tools, tool_name[2]))
    THEN Ret(JStr(<<"Error: Tool '">> \o PyStr(tool_name) \o <<"' not found">>))
    ELSE LET tool_config == DictGet(tools, tool_name[2], <<>>)
             function_path == tool_config.function
         IN  IF function_path = <<>>
             THEN Ret(JStr(<<"Error: Function path not defined for tool '">>
                               \o PyStr(tool_name) \o <<"'">>))
             ELSE LET r == ResolveAndCall(function_path, parameters, outcome)
                  IN  IF ~Raised(r) THEN r
                      ELSE IF r[2] \in {"ImportError", "AttributeError"}
                      THEN Ret(JStr(<<"Error loading tool function: ">> \o r[3]))
                      ELSE IF r[2] \in ExceptionClasses
                      THEN Ret(JStr(<<"Error executing tool: ">> \o r[3]))
                      ELSE r

\* prompt_template.format(agent_name=..., backstory=..., task=...)
FormatTemplate(template) ==
    IF \E k \in DOMAIN template :
           template[k] \in Placeholders \ {"{agent_name}", "{backstory}", "{task}"}
    THEN Raise("KeyError", <<"'user'">>)
    ELSE LET Sub(t) == IF t = "{agent_name}" THEN agent_name
                       ELSE IF t = "{backstory}" THEN backstory
                       ELSE IF t = "{task}" THEN task
                       ELSE <<t>>
             F[k \in 0..Len(template)] ==
                 IF k = 0 THEN <<>> ELSE F[k - 1] \o Sub(template[k])
         IN  Ret(F[Len(template)])

\* the fixed instruction block that ends every system prompt
ToolFormatInstructions == <<"To use a tool, use the following format: ...">>

\* Agent._create_system_prompt()
CreateSystemPrompt(cfg) ==
    IF cfg.prompt_template # <<>>
    THEN LET f == FormatTemplate(cfg.prompt_template)
         IN  IF Raised(f) THEN f ELSE Ret(f[2] \o ToolFormatInstructions)
    ELSE LET L[k \in 0..Len(tools)] ==
                 IF k = 0 THEN <<>>
                 ELSE L[k - 1] \o <<"- ">> \o tools[k][1] \o <<": ">>
                          \o tools[k][2].description
         IN  Ret(<<"You are ">> \o agent_name \o <<". ">> \o backstory
                     \o <<"Your task is to ">> \o task
                     \o <<". You have access to the following tools: ">>
                     \o L[Len(tools)] \o ToolFormatInstructions)

\* the provider names get_llm_provider accepts
Providers == {"openai", "anthropic"}

ProviderTitle(provider) == IF provider = "openai" THEN "OpenAI" ELSE "Anthropic"

\* the text get_response returns when the provider holds no api key
KeyNotSetText(provider) ==
    IF provider = "openai"
    THEN <<"Error: OpenAI API key not set. Please set the OPENAI_API_KEY environment variable.">>
    ELSE <<"Error: Anthropic API key not set. Please set the ANTHROPIC_API_KEY environment variable.">>

\* the text get_response returns when the provider's SDK is not importable
NotInstalledText(provider) ==
    IF provider = "openai"
    THEN <<"Error: OpenAI module not installed. Please install it with 'pip install openai'">>
    ELSE <<"Error: Anthropic module not installed. Please install it with 'pip install anthropic'">>

\* what lies behind a get_response call that holds a key: the SDK is missing,
\* or the request returns a text, or it raises
NotInstalled == <<"notinstalled">>
ApiFailure == Raise("APIConnectionError", <<"Connection error.">>)

GetResponseRaisesWithoutKey(l, backend) ==
    IF ~l.api_key THEN Raise("ValueError", KeyNotSetText(l.provider))
    ELSE IF backend = NotInstalled THEN Ret(NotInstalledText(l.provider))
    ELSE IF Raised(backend) /\ backend[2] \in ExceptionClasses
    THEN Ret(<<"Error calling ", ProviderTitle(l.provider), " API: ">> \o backend[3])
    ELSE backend

\* get_response of provider l as a call, the request (if it is made) doing
\* backend: without a key the error text is returned before anything else;
\* an exception of the request is turned into a text
GetResponse(l, backend) ==
    IF ~l.api_key THEN Ret(KeyNotSetText(l.provider))
    ELSE IF backend = NotInstalled THEN Ret(NotInstalledText(l.provider))
    ELSE IF Raised(backend) /\ backend[2] \in ExceptionClasses
    THEN Ret(<<"Error calling ", ProviderTitle(l.provider), " API: ">> \o backend[3])
    ELSE backend

\* the tools argument of get_response: the formatted tool list, or None
FormattedTools == [given |-> TRUE, names |-> [k \in DOMAIN tools |-> tools[k][1]]]
NoTools == [given |-> FALSE, names |-> <<>>]

\* _format_tools_for_llm: the provider's format_tools on Agent.tools (the
\* prompt-only provider returns the empty list)
FormatToolsForLLM(l) ==
    IF l.provider = "openai" THEN FormattedTools ELSE [given |-> TRUE, names |-> <<>>]

ProcessQueryExceptNarrow(exc) ==
    IF exc[2] \in {"ImportError", "AttributeError"}
    THEN Ret(<<"Error processing query: ">> \o exc[3])
    ELSE exc

\* except Exception as e: return f"Error processing query: {str(e)}"
ProcessQueryExcept(exc) ==
    IF exc[2] \in ExceptionClasses
    THEN Ret(<<"Error processing query: ">> \o exc[3])
    ELSE exc

-----------------------------------------------------------------------------
(* The inputs of process_query: the queries and what the backend replies *)

Queries == {<<"What is 2 + 2?">>, <<"Hi">>}

\* the text {"tool": <name>, "parameters": <params>}
CallText(name, params) ==
    <<"{", Q, "tool", Q, ":", WS>> \o name
        \o <<",", WS, Q, "parameters", Q, ":", WS>> \o params \o <<"}">>

\* a text inside a fenced block labelled json
Fenced(t) == <<BT, BT, BT, "json", WS>> \o t \o <<WS, BT, BT, BT>>

QuotedName(n) == <<Q, n, Q>>
ExprParams == <<"{", Q, "expression", Q, ":", WS, Q, "2+2", Q, "}">>

Prose == <<"Hello, how can I help?">>
CallCalculator == CallText(QuotedName("calculator"), ExprParams)
CallUnregistered == <<"I will look it up.", WS>>
                        \o Fenced(CallText(QuotedName("weather"), <<"{", "}">>))
CallUnhashable == CallText(<<"{", Q, "name", Q, ":", WS, Q, "calculator", Q, "}">>,
                           ExprParams)
CallListName == Fenced(CallText(<<"[", Q, "calculator", Q, "]">>, ExprParams))
CallNumberName == CallText(<<"4", "2">>, <<"{", "}">>)
CallNoFunc == CallText(QuotedName("nofunc"), <<"{", "}">>)
CallGhost == CallText(QuotedName("ghost"), <<"{", "}">>)
CallNoAttr == CallText(QuotedName("noattr"), <<"{", "}">>)
CallNoDot == CallText(QuotedName("nodot"), <<"{", "}">>)
CallBadParams == CallText(QuotedName("calculator"), <<"4">>)
ToolOnly == <<"{", Q, "tool", Q, ":", WS, Q, "calculator", Q, "}">>
Malformed == Fenced(<<"{", Q, "tool", Q, ":", WS, "calculator", "}">>)

FirstReplies ==
    {Prose, CallCalculator, CallUnregistered, CallUnhashable, CallListName,
     CallNumberName, CallNoFunc, CallGhost, CallNoAttr, CallNoDot, CallBadParams,
     ToolOnly, Malformed}

FinalAnswer == <<"The answer is 4.">>
SecondReplies == {FinalAnswer, CallCalculator, Fenced(CallCalculator)}

\* what the request of the first and of the second get_response can do
FirstBackends == {Ret(t) : t \in FirstReplies} \cup {NotInstalled, ApiFailure}
SecondBackends == {Ret(t) : t \in SecondReplies} \cup {NotInstalled, ApiFailure}

-----------------------------------------------------------------------------
(* agent.py: Agent.__init__ and Agent.process_query, one action per stretch  *)
(* of code between two calls of the backend or of a tool callable            *)

MemoryMaxItems == 10

\* Agent.__init__: Memory(max_items=10, enabled=config.memory), nothing running
AgentInit ==
    /\ config \in [memory : BOOLEAN, prompt_template : Templates]
    /\ messages = <<>>
    /\ max_items = MemoryMaxItems
    /\ enabled = config.memory
    /\ lastOp = "init" /\ returned = <<>> /\ nadds = 0 /\ accepted = <<>>
    /\ rejected = {} /\ onlyAdds = enabled /\ snapshot = <<>> /\ touched = FALSE
    /\ prevEnabled = enabled
    /\ pc = "idle"
    /\ query = <<>> /\ outgoing = <<>> /\ tool_response = <<>>
    /\ tool_call = NoAction /\ tool_result = <<>> /\ result = <<>>
    /\ ending = "none" /\ propagated = FALSE
    /\ calls = <<>> /\ ndispatch = 0 /\ nextract = 0
    /\ memBefore = <<>> /\ nqueries = 0
    /\ llm \in [provider : Providers, api_key : BOOLEAN]
    /\ called = NotCalled
    /\ fnArg = <<>> /\ fnResult = <<>> /\ fnDone = FALSE
    /\ adders = NoAdders

\* how process_query leaves through its except clause with exception exc
LeaveByExcept(exc) ==
    LET h == ProcessQueryExcept(exc)
    IN  /\ result' = (IF Raised(h) THEN <<>> ELSE h[2])
        /\ propagated' = Raised(h)
        /\ ending' = "error"
        /\ pc' = "done"

ProcessQueryStartRecordsBeforePrompt(q) ==
    /\ pc = "idle"
    /\ nqueries < MaxQueries
    /\ query' = q
    /\ memBefore' = messages
    /\ calls' = <<>> /\ ndispatch' = 0 /\ nextract' = 0
    /\ tool_response' = <<>> /\ tool_call' = NoAction /\ tool_result' = <<>>
    /\ called' = NotCalled
    /\ messages' = MemoryAdd(messages, max_items, enabled, "user", q)
    /\ LET sp == CreateSystemPrompt(config)
       IN  IF Raised(sp)
           THEN /\ LeaveByExcept(sp)
                /\ outgoing' = <<>>
           ELSE /\ outgoing' = <<Turn("system", sp[2])>>
                                \o (IF enabled
                                    THEN MemoryGetMessages(messages, enabled)
                                    ELSE <<>>)
                                \o <<Turn("user", q)>>
                /\ pc' = "first_call"
                /\ result' = <<>> /\ ending' = "none" /\ propagated' = FALSE
    /\ UNCHANGED <<fnVars, llm, config, nqueries, max_items, enabled, memHistory>>

ProcessQueryStartNoRecord(q) ==
    /\ pc = "idle"
    /\ nqueries < MaxQueries
    /\ query' = q
    /\ memBefore' = messages
    /\ calls' = <<>> /\ ndispatch' = 0 /\ nextract' = 0
    /\ tool_response' = <<>> /\ tool_call' = NoAction /\ tool_result' = <<>>
    /\ called' = NotCalled
    /\ LET sp == CreateSystemPrompt(config)
       IN  IF Raised(sp)
           THEN /\ LeaveByExcept(sp)
                /\ outgoing' = <<>>
                /\ UNCHANGED messages
           ELSE /\ outgoing' = <<Turn("system", sp[2])>>
                                \o (IF enabled
                                    THEN MemoryGetMessages(messages, enabled)
                                    ELSE <<>>)
                                \o <<Turn("user", q)>>
                /\ UNCHANGED messages
                /\ pc' = "first_call"
                /\ result' = <<>> /\ ending' = "none" /\ propagated' = FALSE
    /\ UNCHANGED <<fnVars, llm, config, nqueries, max_items, enabled, memHistory>>

ProcessQueryStartRecordsFirst(q) ==
    /\ pc = "idle"
    /\ nqueries < MaxQueries
    /\ query' = q
    /\ memBefore' = messages
    /\ calls' = <<>> /\ ndispatch' = 0 /\ nextract' = 0
    /\ tool_response' = <<>> /\ tool_call' = NoAction /\ tool_result' = <<>>
    /\ called' = NotCalled
    /\ LET sp == CreateSystemPrompt(config)
       IN  IF Raised(sp)
           THEN /\ LeaveByExcept(sp)
                /\ outgoing' = <<>>
                /\ UNCHANGED messages
           ELSE /\ messages' = MemoryAdd(messages, max_items, enabled, "user", q)
                /\ outgoing' = <<Turn("system", sp[2])>>
                                \o (IF enabled
                                    THEN MemoryGetMessages(messages', enabled)
                                    ELSE <<>>)
                                \o <<Turn("user", q)>>
                /\ pc' = "first_call"
                /\ result' = <<>> /\ ending' = "none" /\ propagated' = FALSE
    /\ UNCHANGED <<fnVars, llm, config, nqueries, max_items, enabled, memHistory>>

\* process_query(q) up to the first backend call: build the system prompt,
\* the outgoing list (system, memory if enabled, user) and record the user turn
ProcessQueryStart(q) ==
    /\ pc = "idle"
    /\ nqueries < MaxQueries
    /\ query' = q
    /\ memBefore' = messages
    /\ calls' = <<>> /\ ndispatch' = 0 /\ nextract' = 0
    /\ tool_response' = <<>> /\ tool_call' = NoAction /\ tool_result' = <<>>
    /\ called' = NotCalled
    /\ LET sp == CreateSystemPrompt(config)
       IN  IF Raised(sp)
           THEN /\ LeaveByExcept(sp)
                /\ outgoing' = <<>>
                /\ UNCHANGED messages
           ELSE /\ outgoing' = <<Turn("system", sp[2])>>
                                \o (IF enabled
                                    THEN MemoryGetMessages(messages, enabled)
                                    ELSE <<>>)
                                \o <<Turn("user", q)>>
                /\ messages' = MemoryAdd(messages, max_items, enabled, "user", q)
                /\ pc' = "first_call"
                /\ result' = <<>> /\ ending' = "none" /\ propagated' = FALSE
    /\ UNCHANGED <<fnVars, llm, config, nqueries, max_items, enabled, memHistory>>

FirstCallStripsReply(backend) ==
    /\ pc = "first_call"
    /\ LET r == GetResponse(llm, backend)
           reply == r[2]
       IN  IF Raised(r)
           THEN /\ calls' = Append(calls, [messages |-> outgoing,
                                           tools |-> FormatToolsForLLM(llm),
                                           reply |-> <<>>])
                /\ LeaveByExcept(r)
                /\ UNCHANGED <<messages, tool_response, nextract, tool_call>>
           ELSE /\ calls' = Append(calls, [messages |-> outgoing,
                                           tools |-> FormatToolsForLLM(llm),
                                           reply |-> reply])
                /\ tool_response' = reply
                /\ nextract' = nextract + 1
                /\ tool_call' = ExtractToolCall(reply)
                /\ IF IsAction(tool_call')
                   THEN /\ pc' = "dispatch"
                        /\ UNCHANGED <<messages, result, ending, propagated>>
                   ELSE /\ messages' = MemoryAdd(messages, max_items, enabled,
                                                 "assistant", Strip(SubSeq(reply, 1, Len(reply) - 1)))
                        /\ result' = reply
                        /\ ending' = "plain"
                        /\ pc' = "done"
                        /\ UNCHANGED propagated
    /\ UNCHANGED <<fnVars, llm, called, config, query, outgoing, tool_result,
                   ndispatch, memBefore, nqueries, max_items, enabled, memHistory>>

\* the first get_response, the request doing backend; extract_tool_call on
\* the reply; without an Action the reply is recorded and returned
FirstCall(backend) ==
    /\ pc = "first_call"
    /\ LET r == GetResponse(llm, backend)
           reply == r[2]
       IN  IF Raised(r)
           THEN /\ calls' = Append(calls, [messages |-> outgoing,
                                           tools |-> FormatToolsForLLM(llm),
                                           reply |-> <<>>])
                /\ LeaveByExcept(r)
                /\ UNCHANGED <<messages, tool_response, nextract, tool_call>>
           ELSE /\ calls' = Append(calls, [messages |-> outgoing,
                                           tools |-> FormatToolsForLLM(llm),
                                           reply |-> reply])
                /\ tool_response' = reply
                /\ nextract' = nextract + 1
                /\ tool_call' = ExtractToolCall(reply)
                /\ IF IsAction(tool_call')
                   THEN /\ pc' = "dispatch"
                        /\ UNCHANGED <<messages, result, ending, propagated>>
                   ELSE /\ messages' = MemoryAdd(messages, max_items, enabled,
                                                 "assistant", reply)
                        /\ result' = reply
                        /\ ending' = "plain"
                        /\ pc' = "done"
                        /\ UNCHANGED propagated
    /\ UNCHANGED <<fnVars, llm, called, config, query, outgoing, tool_result,
                   ndispatch, memBefore, nqueries, max_items, enabled, memHistory>>

DispatchRecordsAction(outcome) ==
    /\ pc = "dispatch"
    /\ ndispatch' = ndispatch + 1
    /\ LET tool_name == DictGet(tool_call[2], <<"tool">>, <<>>)
           parameters == DictGet(tool_call[2], <<"parameters">>, JObj(<<>>))
           r == ExecuteTool(tool_name, parameters, outcome)
       IN  /\ called' = (IF ExecuteTool(tool_name, parameters, CallReached) = CallReached
                         THEN outcome ELSE NotCalled)
           /\ IF Raised(r)
              THEN /\ LeaveByExcept(r)
                   /\ UNCHANGED <<tool_result, outgoing, messages>>
              ELSE /\ tool_result' = r[2]
                   /\ outgoing' = outgoing
                          \o <<Turn("assistant", JsonDumps(tool_call)),
                               Turn("system", <<"Tool result: ">> \o PyStr(r[2]))>>
                   /\ messages' = MemoryAdd(messages, max_items, enabled, "assistant",
                                            JsonDumps(tool_call))
                   /\ pc' = "second_call"
                   /\ UNCHANGED <<result, ending, propagated>>
    /\ UNCHANGED <<fnVars, llm, config, query, tool_response, tool_call, calls, nextract,
                   memBefore, nqueries, max_items, enabled, memHistory>>

DispatchResultFirst(outcome) ==
    /\ pc = "dispatch"
    /\ ndispatch' = ndispatch + 1
    /\ LET tool_name == DictGet(tool_call[2], <<"tool">>, <<>>)
           parameters == DictGet(tool_call[2], <<"parameters">>, JObj(<<>>))
           r == ExecuteTool(tool_name, parameters, outcome)
       IN  /\ called' = (IF ExecuteTool(tool_name, parameters, CallReached) = CallReached
                         THEN outcome ELSE NotCalled)
           /\ IF Raised(r)
              THEN /\ LeaveByExcept(r)
                   /\ UNCHANGED <<tool_result, outgoing>>
              ELSE /\ tool_result' = r[2]
                   /\ outgoing' = outgoing
                          \o <<Turn("system", <<"Tool result: ">> \o PyStr(r[2])),
                               Turn("assistant", JsonDumps(tool_call))>>
                   /\ pc' = "second_call"
                   /\ UNCHANGED <<result, ending, propagated>>
    /\ UNCHANGED <<fnVars, llm, config, query, tool_response, tool_call, calls, nextract,
                   memBefore, nqueries, memVars>>

\* _execute_tool on the Action, the callable (if reached) doing outcome; the
\* serialized Action and the result are appended to the outgoing list
Dispatch(outcome) ==
    /\ pc = "dispatch"
    /\ ndispatch' = ndispatch + 1
    /\ LET tool_name == DictGet(tool_call[2], <<"tool">>, <<>>)
           parameters == DictGet(tool_call[2], <<"parameters">>, JObj(<<>>))
           r == ExecuteTool(tool_name, parameters, outcome)
       IN  /\ called' = (IF ExecuteTool(tool_name, parameters, CallReached) = CallReached
                         THEN outcome ELSE NotCalled)
           /\ IF Raised(r)
              THEN /\ LeaveByExcept(r)
                   /\ UNCHANGED <<tool_result, outgoing>>
              ELSE /\ tool_result' = r[2]
                   /\ outgoing' = outgoing
                          \o <<Turn("assistant", JsonDumps(tool_call)),
                               Turn("system", <<"Tool result: ">> \o PyStr(r[2]))>>
                   /\ pc' = "second_call"
                   /\ UNCHANGED <<result, ending, propagated>>
    /\ UNCHANGED <<fnVars, llm, config, query, tool_response, tool_call, calls, nextract,
                   memBefore, nqueries, memVars>>

SecondCallChains(backend) ==
    /\ pc = "second_call"
    /\ LET r == GetResponse(llm, backend)
           reply == r[2]
       IN  IF Raised(r)
           THEN /\ calls' = Append(calls, [messages |-> outgoing, tools |-> NoTools,
                                           reply |-> <<>>])
                /\ LeaveByExcept(r)
                /\ UNCHANGED <<messages, tool_call, nextract>>
           ELSE /\ calls' = Append(calls, [messages |-> outgoing, tools |-> NoTools,
                                           reply |-> reply])
                /\ IF IsAction(ExtractToolCall(reply)) /\ ndispatch < 2
                   THEN /\ tool_call' = ExtractToolCall(reply)
                        /\ nextract' = nextract + 1
                        /\ pc' = "dispatch"
                        /\ UNCHANGED <<messages, result, ending, propagated>>
                   ELSE /\ messages' = MemoryAdd(messages, max_items, enabled,
                                                 "assistant", reply)
                        /\ nextract' = nextract + 1
                        /\ result' = reply
                        /\ ending' = "tool"
                        /\ pc' = "done"
                        /\ UNCHANGED <<tool_call, propagated>>
    /\ UNCHANGED <<fnVars, llm, called, config, query, outgoing, tool_response,
                   tool_result, ndispatch, memBefore, nqueries, max_items, enabled,
                   memHistory>>

\* the second get_response (tools=None), the request doing backend; the
\* reply is recorded and returned
SecondCall(backend) ==
    /\ pc = "second_call"
    /\ LET r == GetResponse(llm, backend)
           reply == r[2]
       IN  IF Raised(r)
           THEN /\ calls' = Append(calls, [messages |-> outgoing, tools |-> NoTools,
                                           reply |-> <<>>])
                /\ LeaveByExcept(r)
                /\ UNCHANGED <<messages, tool_call, nextract>>
           ELSE /\ calls' = Append(calls, [messages |-> outgoing, tools |-> NoTools,
                                           reply |-> reply])
                /\ messages' = MemoryAdd(messages, max_items, enabled,
                                         "assistant", reply)
                /\ result' = reply
                /\ ending' = "tool"
                /\ pc' = "done"
                /\ UNCHANGED <<tool_call, propagated, nextract>>
    /\ UNCHANGED <<fnVars, llm, called, config, query, outgoing, tool_response,
                   tool_result, ndispatch, memBefore, nqueries, max_items, enabled,
                   memHistory>>

\* process_query has returned to run_agent; the agent waits for the next query
Return ==
    /\ pc = "done"
    /\ pc' = "idle"
    /\ nqueries' = nqueries + 1
    /\ UNCHANGED <<fnVars, llm, called, config, query, outgoing, tool_response, tool_call, tool_result,
                   result, ending, propagated, calls, ndispatch, nextract,
                   memBefore, memVars>>

Next ==
    \/ \E q \in Queries : ProcessQueryStart(q)
    \/ \E backend \in FirstBackends : FirstCall(backend)
    \/ \E outcome \in CallOutcomes : Dispatch(outcome)
    \/ \E backend \in SecondBackends : SecondCall(backend)
    \/ Return

Spec == AgentInit /\ [][Next]_vars

\* Memory.__init__(max_items, enabled), for capacities 0..MaxCap, with no Agent
\* around it (the agent fields rest)
MemInit ==
    /\ messages = <<>>
    /\ max_items \in 0..MaxCap
    /\ enabled \in BOOLEAN
    /\ lastOp = "init"
    /\ returned = <<>>
    /\ nadds = 0
    /\ accepted = <<>>
    /\ rejected = {}
    /\ onlyAdds = enabled
    /\ snapshot = <<>>
    /\ touched = FALSE
    /\ prevEnabled = enabled
    /\ config = [memory |-> enabled, prompt_template |-> NoTemplate]
    /\ pc = "idle"
    /\ query = <<>> /\ outgoing = <<>> /\ tool_response = <<>>
    /\ tool_call = NoAction /\ tool_result = <<>> /\ result = <<>>
    /\ ending = "none" /\ propagated = FALSE
    /\ calls = <<>> /\ ndispatch = 0 /\ nextract = 0
    /\ memBefore = <<>> /\ nqueries = 0
    /\ llm = [provider |-> "openai", api_key |-> TRUE]
    /\ called = NotCalled
    /\ fnArg = <<>> /\ fnResult = <<>> /\ fnDone = FALSE
    /\ adders = NoAdders

SpecMemory == MemInit /\ [][MemNext]_vars

-----------------------------------------------------------------------------
(* extract_tool_call studied alone: the specification SpecExtract draws an   *)
(* argument and applies the method once.                                     *)

\* the dict {"tool": t, "parameters": p}
Action(t, p) == JObj(<< <<<<"tool">>, JStr(t)>>, <<<<"parameters">>, p>> >>)

\* a text inside a fenced block without a label
FencedPlain(t) == <<BT, BT, BT, WS>> \o t \o <<WS, BT, BT, BT>>

\* tool names: plain ones and one holding a brace followed by backticks
ToolNames == {<<"t">>, <<"calculator">>, <<"a", "}", BT, BT, BT>>}

\* the dict with the single key a
Single(v) == JObj(<< <<<<"a">>, v>> >>)

\* parameter mappings: empty, flat, nested, with an array, with string values
\* holding braces, backticks, and a closing brace followed by backticks
ParameterMappings ==
    {JObj(<<>>),
     JObj(<< <<<<"expression">>, JStr(<<"2+2">>)>> >>),
     JObj(<< <<<<"a">>, JNum(<<"1">>)>>, <<<<"b">>, JStr(<<"x">>)>> >>),
     Single(JObj(<< <<<<"b">>, JNum(<<"1">>)>> >>)),
     Single(Single(JObj(<<>>))),
     Single(JArr(<<JNum(<<"1">>), JStr(<<"x">>)>>)),
     Single(JStr(<<"{", "x", "}">>)),
     Single(JStr(<<"}">>)),
     Single(JStr(<<BT, BT, BT, "x">>)),
     Single(JStr(<<BT, "x", BT>>)),
     Single(JStr(<<"x", "}", BT, BT, BT, "y">>)),
     Single(JStr(<<"}", WS, BT, BT, BT>>))}

\* the arguments that serialize an Action inside a fenced block
RoundTripArgs ==
    {[source |-> Action(t, p), text |-> Fenced(JsonDumps(Action(t, p)))] :
        t \in ToolNames, p \in ParameterMappings}
    \cup {[source |-> Action(t, p), text |-> FencedPlain(JsonDumps(Action(t, p)))] :
        t \in ToolNames, p \in ParameterMappings}

\* objects by the keys they hold
KeyedObjects ==
    {JObj(<<>>),
     JObj(<< <<<<"tool">>, JStr(<<"t">>)>> >>),
     JObj(<< <<<<"parameters">>, JObj(<<>>)>> >>),
     JObj(<< <<<<"name">>, JStr(<<"t">>)>>, <<<<"arguments">>, JObj(<<>>)>> >>),
     JObj(<< <<<<"parameters">>, JObj(<<>>)>>, <<<<"tool">>, JStr(<<"t">>)>> >>),
     JObj(<< <<<<"tool">>, JNum(<<"1">>)>>, <<<<"parameters">>, JArr(<<>>)>>,
             <<<<"id">>, JNum(<<"4">>)>> >>)}

\* candidates that json.loads rejects
BrokenJson ==
    {<<"{", Q, "tool", Q, ":", WS, "calculator", "}">>,
     <<"{", Q, "tool", Q, ":", WS, Q, "t", Q, ",", WS, Q, "parameters", Q, ":", WS, "}">>,
     <<"{", Q, "tool", Q, ":", WS, Q, "t", Q, ",", "}">>,
     <<"{", Q, "tool", Q, WS, Q, "t", Q, "}">>,
     <<"{", "tool", "}">>,
     <<"{", Q, "tool", Q, ":", WS, Q, "t", "}">>,
     <<"{", "}", "}">>}

\* the ways a reply carries a candidate: alone, between blanks, fenced with
\* or without a label, fenced between prose, after prose
Wrappings(t) ==
    {t, <<WS>> \o t \o <<WS, WS>>, Fenced(t), FencedPlain(t),
     <<"Let me use a tool.", WS>> \o Fenced(t) \o <<WS, "Done.">>,
     <<"Let me use a tool.", WS>> \o t,
     <<BT, BT, BT, "json">> \o t \o <<BT, BT, BT>>}

TextAlphabet == {"{", "}", Q, BT, WS}

\* every text of n tokens of TextAlphabet
TextsOfLen(n) == [1..n -> TextAlphabet]

ShortTexts == UNION {TextsOfLen(n) : n \in 0..MaxTextLen}

\* the texts given to extract_tool_call on their own
RawTexts ==
    FirstReplies \cup SecondReplies \cup ShortTexts
    \cup UNION {Wrappings(JsonDumps(o)) : o \in KeyedObjects}
    \cup UNION {Wrappings(b) : b \in BrokenJson}

ExtractArgs ==
    RoundTripArgs \cup {[source |-> NoAction, text |-> t] : t \in RawTexts}

\* an argument is chosen; nothing else exists (the Memory and Agent fields rest)
ExtractInit ==
    /\ fnArg \in ExtractArgs
    /\ fnResult = <<>>
    /\ fnDone = FALSE
    /\ adders = NoAdders
    /\ messages = <<>>
    /\ max_items = MemoryMaxItems
    /\ enabled = FALSE
    /\ lastOp = "init"
    /\ returned = <<>>
    /\ nadds = 0
    /\ accepted = <<>>
    /\ rejected = {}
    /\ onlyAdds = FALSE
    /\ snapshot = <<>>
    /\ touched = FALSE
    /\ prevEnabled = FALSE
    /\ config = [memory |-> FALSE, prompt_template |-> NoTemplate]
    /\ pc = "idle"
    /\ query = <<>> /\ outgoing = <<>> /\ tool_response = <<>>
    /\ tool_call = NoAction /\ tool_result = <<>> /\ result = <<>>
    /\ ending = "none" /\ propagated = FALSE
    /\ calls = <<>> /\ ndispatch = 0 /\ nextract = 0
    /\ memBefore = <<>> /\ nqueries = 0
    /\ llm = [provider |-> "openai", api_key |-> TRUE]
    /\ called = NotCalled

\* extract_tool_call(fnArg.text) is called: it returns or raises
extract_tool_call ==
    /\ ~fnDone
    /\ fnResult' = ExtractOutcome(fnArg.text)
    /\ fnDone' = TRUE
    /\ UNCHANGED <<fnArg, adders, memVars, agentVars>>

SpecExtract == ExtractInit /\ [][extract_tool_call]_vars

-----------------------------------------------------------------------------
(* The message conversion of AnthropicProvider.get_response studied alone:   *)
(* the specification SpecConvert draws a message list and converts it once.  *)

RECURSIVE ConvertFrom(_, _, _, _)
\* the for loop of the conversion from message i on, with the system prompt
\* and the converted messages built so far
ConvertFrom(msgs, i, system_prompt, claude_messages) ==
    IF i > Len(msgs) THEN [system |-> system_prompt, messages |-> claude_messages]
    ELSE LET msg == msgs[i]
         IN  IF msg.role = "system"
             THEN IF claude_messages = <<>>
                  THEN ConvertFrom(msgs, i + 1, msg.content, claude_messages)
                  ELSE ConvertFrom(msgs, i + 1, system_prompt,
                           Append(claude_messages,
                                  Turn("assistant",
                                       <<"System message: ">> \o msg.content)))
             ELSE IF msg.role \in {"user", "assistant"}
             THEN ConvertFrom(msgs, i + 1, system_prompt,
                              Append(claude_messages, Turn(msg.role, msg.content)))
             ELSE ConvertFrom(msgs, i + 1, system_prompt, claude_messages)

\* the system and messages arguments of client.messages.create
AnthropicConvert(msgs) == ConvertFrom(msgs, 1, <<>>, <<>>)

\* the roles a message given to get_response can carry
MessageRoles == Roles \cup {"tool"}

\* the message lists of n messages, the k-th with the content A, B, C, ...
MessageListsOfLen(n) ==
    {[k \in 1..n |-> Turn(r[k], Content(k))] : r \in [1..n -> MessageRoles]}

MessageLists == UNION {MessageListsOfLen(n) : n \in 0..MaxMsgs}

\* a message list is chosen; nothing else exists
ConvertInit ==
    /\ fnArg \in MessageLists
    /\ fnResult = <<>>
    /\ fnDone = FALSE
    /\ adders = NoAdders
    /\ messages = <<>>
    /\ max_items = MemoryMaxItems
    /\ enabled = FALSE
    /\ lastOp = "init"
    /\ returned = <<>>
    /\ nadds = 0
    /\ accepted = <<>>
    /\ rejected = {}
    /\ onlyAdds = FALSE
    /\ snapshot = <<>>
    /\ touched = FALSE
    /\ prevEnabled = FALSE
    /\ config = [memory |-> FALSE, prompt_template |-> NoTemplate]
    /\ pc = "idle"
    /\ query = <<>> /\ outgoing = <<>> /\ tool_response = <<>>
    /\ tool_call = NoAction /\ tool_result = <<>> /\ result = <<>>
    /\ ending = "none" /\ propagated = FALSE
    /\ calls = <<>> /\ ndispatch = 0 /\ nextract = 0
    /\ memBefore = <<>> /\ nqueries = 0
    /\ llm = [provider |-> "anthropic", api_key |-> TRUE]
    /\ called = NotCalled

\* get_response converts fnArg for the request
anthropic_convert ==
    /\ ~fnDone
    /\ fnResult' = AnthropicConvert(fnArg)
    /\ fnDone' = TRUE
    /\ UNCHANGED <<fnArg, adders, memVars, agentVars>>

SpecConvert == ConvertInit /\ [][anthropic_convert]_vars

-----------------------------------------------------------------------------
(* Memory.add called by two callers at once on one enabled Memory: the       *)
(* specification SpecInterleave runs the two calls step by step, in any      *)
(* order: append to the list, length check, slice of the last N, rebind.     *)

Callers == {1, 2}

\* the turn caller t adds
AddedTurn(t) == IF t = 1 THEN Turn("user", <<"X">>) ELSE Turn("assistant", <<"Y">>)

\* the memory after k sequential adds: the turns A, B, C, ...
Stored(k) == [i \in 1..k |-> Turn("user", Content(i))]

\* an enabled Memory of capacity 2..MaxShared holding 0..capacity turns, and
\* two add calls about to start (the Agent fields rest)
InterleaveInit ==
    /\ max_items \in 2..MaxShared
    /\ enabled = TRUE
    /\ messages \in {Stored(k) : k \in 0..max_items}
    /\ adders = [initial |-> messages,
                 pc |-> [t \in Callers |-> "append"],
                 tmp |-> [t \in Callers |-> <<>>]]
    /\ lastOp = "init"
    /\ returned = <<>>
    /\ nadds = 0
    /\ accepted = <<>>
    /\ rejected = {}
    /\ onlyAdds = TRUE
    /\ snapshot = <<>>
    /\ touched = FALSE
    /\ prevEnabled = TRUE
    /\ config = [memory |-> TRUE, prompt_template |-> NoTemplate]
    /\ pc = "idle"
    /\ query = <<>> /\ outgoing = <<>> /\ tool_response = <<>>
    /\ tool_call = NoAction /\ tool_result = <<>> /\ result = <<>>
    /\ ending = "none" /\ propagated = FALSE
    /\ calls = <<>> /\ ndispatch = 0 /\ nextract = 0
    /\ memBefore = <<>> /\ nqueries = 0
    /\ llm = [provider |-> "openai", api_key |-> TRUE]
    /\ called = NotCalled
    /\ fnArg = <<>> /\ fnResult = <<>> /\ fnDone = FALSE

\* caller t moves to step p, holding slice
Moved(t, p, slice) ==
    [adders EXCEPT !.pc[t] = p, !.tmp[t] = slice]

\* add, first step: the enabled test and self.messages.append(...), in place
AddAppend(t) ==
    /\ adders.pc[t] = "append"
    /\ IF enabled
       THEN /\ messages' = Append(messages, AddedTurn(t))
            /\ adders' = Moved(t, "check", <<>>)
       ELSE /\ adders' = Moved(t, "done", <<>>)
            /\ UNCHANGED messages
    /\ UNCHANGED <<max_items, enabled, memHistory, agentVars, fnArg, fnResult, fnDone>>

\* add, second step: if len(self.messages) > self.max_items
AddCheck(t) ==
    /\ adders.pc[t] = "check"
    /\ adders' = Moved(t, IF Len(messages) > max_items THEN "slice" ELSE "done", <<>>)
    /\ UNCHANGED <<memVars, agentVars, fnArg, fnResult, fnDone>>

AddSliceDropsNewest(t) ==
    /\ adders.pc[t] = "slice"
    /\ adders' = Moved(t, "rebind", SubSeq(messages, 1, max_items))
    /\ UNCHANGED <<memVars, agentVars, fnArg, fnResult, fnDone>>

\* add, third step: the value of self.messages[-self.max_items:], a new list
AddSlice(t) ==
    /\ adders.pc[t] = "slice"
    /\ adders' = Moved(t, "rebind", PySliceFrom(messages, 0 - max_items))
    /\ UNCHANGED <<memVars, agentVars, fnArg, fnResult, fnDone>>

\* add, fourth step: self.messages = <the slice>, and the call returns
AddRebind(t) ==
    /\ adders.pc[t] = "rebind"
    /\ messages' = adders.tmp[t]
    /\ adders' = Moved(t, "done", <<>>)
    /\ UNCHANGED <<max_items, enabled, memHistory, agentVars, fnArg, fnResult, fnDone>>

InterleaveNext ==
    \/ \E t \in Callers : AddAppend(t)
    \/ \E t \in Callers : AddCheck(t)
    \/ \E t \in Callers : AddSlice(t)
    \/ \E t \in Callers : AddRebind(t)

SpecInterleave == InterleaveInit /\ [][InterleaveNext]_vars

-----------------------------------------------------------------------------
(* Helpers of the properties *)

\* the last n elements of s (all of s when it has fewer)
LastN(s, n) == SubSeq(s, Len(s) - Min(n, Len(s)) + 1, Len(s))

-----------------------------------------------------------------------------
(* Properties of Memory, checked under SpecMemory *)

\* C1: on a Memory constructed enabled with capacity N >= 1 that has only been
\* added to, once N or more turns were added get_messages() is exactly the last
\* N added turns in their original order (the oldest are dropped).
C1_LastNAddsInOrder ==
    (onlyAdds /\ max_items >= 1 /\ nadds >= max_items)
        => MemoryGetMessages(messages, enabled) = LastN(accepted, max_items)

\* capacity 2, adds A, B, C: exactly [B, C] is stored
C1_Witness ==
    /\ onlyAdds /\ max_items = 2 /\ nadds = 3
    /\ Len(accepted) = 3
    /\ MemoryGetMessages(messages, enabled) = <<accepted[2], accepted[3]>>
    /\ messages[1].content = <<"B">> /\ messages[2].content = <<"C">>

\* C2: after every add, clear and set_enabled call on a Memory of any capacity
\* N >= 0 the number of stored turns is at most N.
C2_LengthAtMostCapacity == Len(messages) <= max_items

\* C7: a turn passed to add while memory is disabled is never stored nor
\* returned in any later state; while disabled, and when re-enabled, the stored
\* sequence is the one stored when memory was disabled (clear aside).
C7_DisabledAddsNeverStored ==
    /\ \A i \in DOMAIN messages : messages[i].content \notin rejected
    /\ \A i \in DOMAIN returned : returned[i].content \notin rejected
    /\ (~touched /\ (~enabled \/ (lastOp = "set_enabled" /\ ~prevEnabled)))
            => messages = snapshot

\* disabled with history, added to, re-enabled, then one more add appended
C7_Witness ==
    /\ enabled /\ ~touched /\ rejected # {} /\ snapshot # <<>>
    /\ lastOp = "add"
    /\ Len(messages) = Len(snapshot) + 1
    /\ SubSeq(messages, 1, Len(snapshot)) = snapshot

\* C8 as stated: get_messages() returns the empty sequence whenever memory is
\* disabled or holds no turns, and the stored turns otherwise.
C8_EmptyWhenDisabled ==
    lastOp = "get_messages"
        => returned = (IF ~enabled \/ messages = <<>> THEN <<>> ELSE messages)

\* C8 amended: get_messages() returns the stored turns, oldest first, whether
\* memory is enabled or disabled; it is empty only when no turns are stored.
C8_ReturnsStoredTurns ==
    lastOp = "get_messages"
        => /\ returned = messages
           /\ returned = LastN(accepted, Len(returned))
           /\ (returned = <<>>) <=> (messages = <<>>)

\* get_messages() called on a disabled memory that holds two turns
C8_Witness ==
    lastOp = "get_messages" /\ ~enabled /\ Len(returned) >= 2

-----------------------------------------------------------------------------
(* Properties of process_query, checked under Spec *)

\* the value of the Action's "tool" key
ToolOf(tc) == DictGet(tc[2], <<"tool">>, <<>>)

\* the Action names a tool of the registry
NamesRegisteredTool(tc) == ToolOf(tc)[1] = "str" /\ HasKey(tools, ToolOf(tc)[2])

\* the memory after the turns of extra were added to before
MemoryAfter(before, extra) == LastN(before \o extra, max_items)

\* C3: process_query never raises to its caller; an exception raised anywhere
\* in the turn (prompt building, dispatch) ends it with the returned text
\* "Error processing query: ..."
C3_NeverRaisesToCaller ==
    /\ ~propagated
    /\ (pc = "done" /\ ending = "error")
           => (Len(result) >= 2 /\ result[1] = "Error processing query: ")

\* an exception raised inside _execute_tool was turned into the returned text
C3_Witness ==
    /\ pc = "done" /\ ending = "error" /\ ndispatch = 1 /\ ~propagated
    /\ result = <<"Error processing query: ", "unhashable type: '", "dict", "'">>

\* C4: one process_query makes at most one dispatch and at most two backend
\* calls; the second call comes only after a dispatch, is given no tools, and
\* its reply is returned as it is, never parsed for an Action.
C4_OneDispatchTwoCalls ==
    /\ ndispatch <= 1 /\ Len(calls) <= 2 /\ nextract <= 1
    /\ Len(calls) = 2
           => /\ ndispatch = 1
              /\ calls[2].tools = NoTools
              /\ calls[1].tools # NoTools
              /\ pc \in {"done", "idle"}
              /\ ending = "tool" /\ result = calls[2].reply

\* the second reply held a valid tool invocation and was returned unparsed
C4_Witness ==
    /\ pc = "done" /\ Len(calls) = 2 /\ ndispatch = 1 /\ nextract = 1
    /\ IsAction(ExtractToolCall(calls[2].reply))
    /\ result = calls[2].reply

\* C5: with memory enabled and an Action in the first reply, a process_query
\* that ran the negotiation to its end (it returned the second reply) added to
\* memory exactly the user turn and the assistant turn of the second reply, in
\* that order; neither the serialized Action nor the tool result is stored.
C5_TwoTurnsRecorded ==
    (pc = "done" /\ enabled /\ IsAction(tool_call) /\ ending = "tool")
        => /\ messages = MemoryAfter(memBefore,
                             <<Turn("user", query), Turn("assistant", calls[2].reply)>>)
           /\ \A i \in DOMAIN messages : messages[i].role \in {"user", "assistant"}

\* second query of a session: the two new turns follow the two earlier ones
C5_Witness ==
    /\ pc = "done" /\ enabled /\ IsAction(tool_call) /\ ending = "tool"
    /\ Len(memBefore) = 2 /\ Len(messages) = 4
    /\ tool_result = JNum(<<"4">>)
    /\ messages[3] = Turn("user", <<"What is 2 + 2?">>)
    /\ messages[4] = Turn("assistant", FinalAnswer)

\* the first reply of the finished query held no Action
EndedWithoutAction == pc = "done" /\ nextract = 1 /\ ~IsAction(tool_call)

\* C6 as stated: without an Action the first reply is returned verbatim after
\* one backend call and no dispatch, and is recorded in memory as an assistant
\* turn.
C6_PlainReplyRecorded ==
    EndedWithoutAction
        => /\ result = tool_response /\ Len(calls) = 1 /\ ndispatch = 0
           /\ messages # <<>>
           /\ messages[Len(messages)] = Turn("assistant", tool_response)

\* C6 amended: ... and is recorded in memory as an assistant turn when memory
\* is enabled; with memory disabled the memory is left as it was.
C6_PlainReplyRecordedIfEnabled ==
    EndedWithoutAction
        => /\ result = tool_response /\ Len(calls) = 1 /\ ndispatch = 0
           /\ calls[1].reply = tool_response
           /\ enabled => messages = MemoryAfter(memBefore,
                             <<Turn("user", query), Turn("assistant", tool_response)>>)
           /\ ~enabled => messages = memBefore

\* a plain reply returned and recorded with memory enabled
C6_Witness ==
    /\ EndedWithoutAction /\ enabled
    /\ result = Prose
    /\ messages[Len(messages)] = Turn("assistant", Prose)

\* C9: dispatching an Action whose tool value is not a registered tool name
\* returns the not-found text and does not raise, whatever JSON value the
\* tool key holds.
C9_UnregisteredToolNotFound ==
    (ndispatch = 1 /\ IsAction(tool_call) /\ ~NamesRegisteredTool(tool_call)
         /\ pc \in {"second_call", "done"})
        => /\ ending # "error"
           /\ tool_result[1] = "str"
           /\ tool_result[2][1] = "Error: Tool '"

\* C10: when the first reply yields an Action, whatever the dispatch does, its
\* result or error text is appended to the outgoing list as a system turn, the
\* second backend call is made and its reply is what process_query returns.
C10_DispatchFailureFedBack ==
    (pc = "done" /\ IsAction(tool_call))
        => /\ Len(calls) = 2
           /\ result = calls[2].reply
           /\ outgoing[Len(outgoing)] =
                  Turn("system", <<"Tool result: ">> \o PyStr(tool_result))

-----------------------------------------------------------------------------
\* the current query got past prompt building: it waits for a backend call or
\* for dispatch, or it has ended after at least one backend call
PastPromptBuilding ==
    \/ pc \in {"first_call", "dispatch", "second_call"}
    \/ pc \in {"done", "idle"} /\ Len(calls) >= 1

\* C11: with memory enabled, once process_query is past prompt building the
\* user turn of this query is stored: it is the newest turn until the query
\* ends, and when the query has ended (plain reply, final reply, or the except
\* clause after a dispatch error) it is the newest turn or the one before it
C11_UserTurnStoredBeforeFirstCall ==
    (enabled /\ PastPromptBuilding) =>
        /\ Len(messages) >= 1
        /\ pc \in {"first_call", "dispatch", "second_call"}
               => messages[Len(messages)] = Turn("user", query)
        /\ ending = "error" => messages[Len(messages)] = Turn("user", query)
        /\ ending \in {"plain", "tool"}
               => /\ Len(messages) >= 2
                  /\ messages[Len(messages) - 1] = Turn("user", query)

\* a query with memory enabled left through the except clause after its first
\* backend call, and its user turn is the newest stored turn
C11_Witness ==
    /\ enabled /\ pc = "done" /\ ending = "error"
    /\ Len(calls) = 1 /\ ndispatch = 1
    /\ messages[Len(messages)] = Turn("user", query)

-----------------------------------------------------------------------------
(* Properties of extract_tool_call, checked under SpecExtract *)

\* C12: extract_tool_call never raises; when it returns an Action, that is
\* the parsed candidate and it is an object holding both the key tool and
\* the key parameters; a reply with only the key tool, a reply of prose and
\* every reply whose candidate json.loads rejects give None
C12_ActionOnlyWithBothKeys ==
    fnDone =>
        /\ ~Raised(fnResult)
        /\ IsAction(fnResult[2]) =>
              /\ JsonMatch(fnArg.text).found
              /\ JsonLoads(JsonMatch(fnArg.text).json_str).ok
              /\ fnResult[2] = JsonLoads(JsonMatch(fnArg.text).json_str).v
              /\ fnResult[2][1] = "obj"
              /\ HasKey(fnResult[2][2], <<"tool">>)
              /\ HasKey(fnResult[2][2], <<"parameters">>)
        /\ fnArg.text \in {ToolOnly, Prose} => fnResult = Ret(NoAction)
        /\ ~JsonMatch(fnArg.text).found => fnResult = Ret(NoAction)
        /\ ~JsonLoads(JsonMatch(fnArg.text).json_str).ok => fnResult = Ret(NoAction)

\* extract_tool_call was applied to the reply {"tool": "calculator"}
C12_Witness ==
    fnDone /\ fnArg.text = ToolOnly /\ fnResult = Ret(NoAction)

\* C13: an Action {"tool": t, "parameters": p} serialized by json.dumps inside
\* a fenced block is extracted as an Action equal to the original
C13_FencedRoundTrip ==
    (fnDone /\ IsAction(fnArg.source)) => fnResult = Ret(fnArg.source)

-----------------------------------------------------------------------------
(* Properties of the providers inside process_query, checked under Spec *)

\* C14: with no api key the agent exists and every get_response call returns
\* the provider's key-not-set text without raising; a process_query that
\* reached the backend then ends as a plain reply: one backend call, no
\* dispatch, that text returned, and with memory enabled that text stored as
\* the newest turn, an assistant turn
C14_MissingKeyIsPlainReply ==
    ~llm.api_key =>
        /\ ~propagated
        /\ \A i \in DOMAIN calls : calls[i].reply = KeyNotSetText(llm.provider)
        /\ pc \notin {"dispatch", "second_call"}
        /\ (pc \in {"done", "idle"} /\ Len(calls) >= 1) =>
              /\ Len(calls) = 1
              /\ ndispatch = 0
              /\ ending = "plain"
              /\ result = KeyNotSetText(llm.provider)
              /\ enabled => /\ Len(messages) >= 2
                            /\ messages[Len(messages)] =
                                   Turn("assistant", KeyNotSetText(llm.provider))
              /\ ~enabled => messages = <<>>

\* a query of an agent without a key and with memory enabled has ended after
\* its backend call
C14_Witness ==
    /\ ~llm.api_key /\ enabled /\ pc = "done"
    /\ Len(calls) = 1
    /\ result = KeyNotSetText(llm.provider)
    /\ messages[Len(messages)].role = "assistant"

-----------------------------------------------------------------------------
(* Properties of the Anthropic message conversion, checked under SpecConvert *)

\* the position of the first system message of msgs (0 if there is none)
FirstSystem(msgs) ==
    IF \E i \in DOMAIN msgs : msgs[i].role = "system"
    THEN CHOOSE i \in DOMAIN msgs :
             msgs[i].role = "system" /\ \A k \in 1..(i - 1) : msgs[k].role # "system"
    ELSE 0

RECURSIVE NotedFrom(_, _)
\* the messages from position i on as the claim converts them: the first
\* system message left out, a later one as an assistant note, user and
\* assistant messages as they are
NotedFrom(msgs, i) ==
    IF i > Len(msgs) THEN <<>>
    ELSE (IF msgs[i].role = "system"
          THEN IF i = FirstSystem(msgs) THEN <<>>
               ELSE <<Turn("assistant", <<"System message: ">> \o msgs[i].content)>>
          ELSE IF msgs[i].role \in {"user", "assistant"} THEN <<msgs[i]>>
          ELSE <<>>)
         \o NotedFrom(msgs, i + 1)

\* C15: for every message list the conversion's system instruction is the
\* content of the first system message, every later system message becomes
\* an assistant message with the system-note prefix, and the user and
\* assistant messages are kept with their content in their order
C15_FirstSystemIsInstruction ==
    fnDone =>
        /\ fnResult.system = (IF FirstSystem(fnArg) = 0 THEN <<>>
                              ELSE fnArg[FirstSystem(fnArg)].content)
        /\ fnResult.messages = NotedFrom(fnArg, 1)

-----------------------------------------------------------------------------
(* Frame properties of Memory, checked under SpecMemory *)

\* C16: every clear() call, with memory enabled or disabled, leaves the
\* stored turns empty and the enabled flag and the capacity as they were
C16_ClearResetsOnlyTurns ==
    [][lastOp' = "clear" =>
          /\ messages' = <<>>
          /\ enabled' = enabled
          /\ max_items' = max_items]_vars

\* clear() was called on a disabled memory that held turns when it was
\* disabled (adds do not store while disabled, so it still held them)
C16_Witness ==
    /\ lastOp = "clear" /\ ~enabled /\ ~prevEnabled
    /\ touched /\ snapshot # <<>>
    /\ messages = <<>>

\* C17: every set_enabled(b) call leaves the stored turns and the capacity
\* as they were and makes the flag a boolean; in particular disabling keeps
\* the history
C17_SetEnabledChangesOnlyFlag ==
    [][lastOp' = "set_enabled" =>
          /\ messages' = messages
          /\ max_items' = max_items
          /\ enabled' \in BOOLEAN]_vars

\* set_enabled(False) was called on an enabled memory holding two turns or
\* more, which it still holds
C17_Witness ==
    /\ lastOp = "set_enabled" /\ prevEnabled /\ ~enabled
    /\ Len(messages) >= 2 /\ snapshot = messages

-----------------------------------------------------------------------------
(* Properties of the message lists given to the backend, checked under Spec *)

\* the number of entries of the list s equal to t
Occurrences(s, t) == Cardinality({i \in DOMAIN s : s[i] = t})

\* the memory turns a query sends: those stored before it, if memory is enabled
SentHistory == IF enabled THEN memBefore ELSE <<>>

\* C18: the list given to the first backend call is the system prompt, then
\* the memory turns as they were before this query (none when memory is
\* disabled), then the new user turn; the new user turn is in it once more
\* than in the earlier history, although memory holds it as well by then
C18_FirstCallMessageList ==
    Len(calls) >= 1 =>
        /\ ~Raised(CreateSystemPrompt(config))
        /\ calls[1].messages =
               <<Turn("system", CreateSystemPrompt(config)[2])>>
                   \o SentHistory \o <<Turn("user", query)>>
        /\ Occurrences(calls[1].messages, Turn("user", query)) =
               Occurrences(SentHistory, Turn("user", query)) + 1

\* a second query with memory enabled made its first backend call with the
\* two turns of the first query before its own user turn
C18_Witness ==
    /\ Len(calls) >= 1 /\ enabled
    /\ Len(memBefore) = 2
    /\ Len(calls[1].messages) = 4
    /\ Len(messages) >= 3

\* C19: when the first reply yields an Action and a second backend call is
\* made, its list is the first call's list followed by two entries: the
\* assistant turn holding json.dumps of the Action, then the system turn
\* holding "Tool result: " and the dispatch result or its error text
C19_SecondCallMessageList ==
    Len(calls) = 2 =>
        /\ IsAction(tool_call)
        /\ calls[2].messages =
               calls[1].messages
                   \o <<Turn("assistant", JsonDumps(tool_call)),
                        Turn("system", <<"Tool result: ">> \o PyStr(tool_result))>>

\* a second backend call was made after a dispatch that ended in an error text
C19_Witness ==
    /\ Len(calls) = 2 /\ ndispatch = 1
    /\ tool_result[1] = "str"
    /\ tool_result[2][1] \in {"Error loading tool function: ", "Error executing tool: "}
    /\ Len(calls[2].messages) = Len(calls[1].messages) + 2

-----------------------------------------------------------------------------
(* Properties of dispatch failures, checked under Spec *)

\* the function path of the registered tool the Action names
FunctionPathOf(tc) == DictGet(tools, ToolOf(tc)[2], <<>>).function

\* the callable of path cannot be resolved: the path does not split into a
\* module and a function, or the module or its attribute is missing
CannotBeLoaded(path) ==
    LET parts == RSplitDot(path)
    IN  \/ Len(parts) # 2
        \/ parts[1] \notin ImportableModules
        \/ parts[2] \notin ModuleAttrs(parts[1])

\* C20: after the dispatch of a registered tool with a function path, a
\* callable that cannot be resolved or loaded gives the load-error text, and
\* an exception raised by the resolved callable, of whatever type, gives the
\* execution-error text with the exception's message
C20_FailuresClassifiedByPlace ==
    (ndispatch >= 1 /\ IsAction(tool_call) /\ NamesRegisteredTool(tool_call)
         /\ FunctionPathOf(tool_call) # <<>>)
        => /\ CannotBeLoaded(FunctionPathOf(tool_call))
                => /\ tool_result[1] = "str"
                   /\ tool_result[2][1] = "Error loading tool function: "
           /\ (called # NotCalled /\ Raised(called))
                => tool_result = JStr(<<"Error executing tool: ">> \o called[3])

-----------------------------------------------------------------------------
(* Properties of the memory between queries, checked under Spec *)

\* C21: with memory enabled, between process_query calls the memory holds
\* only user and assistant turns, in pairs: every odd position is a user
\* turn, every even position an assistant turn, and the last turn is an
\* assistant turn
C21_MemoryAlternatesBetweenQueries ==
    (enabled /\ pc = "idle") =>
        /\ \A i \in DOMAIN messages :
               messages[i].role = (IF i % 2 = 1 THEN "user" ELSE "assistant")
        /\ Len(messages) % 2 = 0

-----------------------------------------------------------------------------
(* Properties of a failing prompt build, checked under Spec *)

\* a process_query call has been made and has ended
QueryEnded == pc = "done" \/ (pc = "idle" /\ nqueries >= 1)

\* C22: when the configured prompt template names a placeholder that format
\* is not given, an ended process_query has returned the text "Error
\* processing query: ..." with the KeyError's message, nothing was raised to
\* the caller, no backend call and no dispatch were made, and the memory is
\* as it was before the query, without the user turn
C22_PromptFailureLeavesNoTrace ==
    (QueryEnded /\ Raised(CreateSystemPrompt(config))) =>
        /\ ending = "error"
        /\ ~propagated
        /\ result = <<"Error processing query: ">> \o CreateSystemPrompt(config)[3]
        /\ calls = <<>>
        /\ ndispatch = 0 /\ nextract = 0
        /\ messages = memBefore
        /\ \A i \in DOMAIN messages : messages[i] # Turn("user", query)

\* an agent with memory enabled and the template naming {user} has answered
\* a query with the error text
C22_Witness ==
    /\ pc = "done" /\ enabled
    /\ config.prompt_template = BadTemplate
    /\ result = <<"Error processing query: ", "'user'">>
    /\ calls = <<>>

-----------------------------------------------------------------------------
(* Properties of two add calls at once, checked under SpecInterleave *)

\* both add calls have returned
BothReturned == adders # NoAdders /\ \A t \in Callers : adders.pc[t] = "done"

\* the turn caller t added is among the stored turns
Present(t) == \E i \in DOMAIN messages : messages[i] = AddedTurn(t)

\* C23 as stated: after both interleaved add calls on an enabled Memory of
\* capacity N >= 2 have returned, both added turns are stored
C23_BothTurnsPresent ==
    BothReturned => (Present(1) /\ Present(2))

\* C23, amended: after both calls have returned at least one of the two
\* turns is stored and the memory holds at most N turns; both are stored
\* when the memory held at most N - 2 turns before the calls (no call
\* truncates)
C23_BothPresentWithoutTruncation ==
    BothReturned =>
        /\ Present(1) \/ Present(2)
        /\ Len(messages) <= max_items
        /\ Len(adders.initial) + 2 <= max_items => (Present(1) /\ Present(2))

\* both calls returned on a Memory that was full, and the turn of caller 2,
\* appended between the slice and the rebind of caller 1, is lost
C23_Witness ==
    /\ BothReturned
    /\ Len(adders.initial) = max_items
    /\ Present(1) /\ ~Present(2)

====
